---- MODULE Spec2Model ----
(***************************************************************************)
(* Meet App (app3.py): logging and retrieving notes about people.          *)
(*                                                                         *)
(* A string is a sequence of one-character strings.  The "interactions"    *)
(* table is a sequence of rows [name, details] in the order the store      *)
(* returns them.  An optional value (Python's None or a value) is a        *)
(* sequence of length 0 or 1.                                              *)
(***************************************************************************)
EXTENDS Integers, Sequences, FiniteSets, TLC

VARIABLES store,     \* rows of the table "interactions"
          run,       \* what the last form submission (script run) did
          logged,    \* <<name, details>> of every save that returned True
          pc,        \* per session: position inside save_interaction
          req,       \* per session: the submitted form (name, details)
          existing,  \* per session: the local existing_names
          ret        \* per session: result of the last completed submission

vars == <<store, run, logged, pc, req, existing, ret>>

(***************************************************************************)
(* Bounds and input sets                                                   *)
(***************************************************************************)
MaxRows == 2

\* names typed into the log form, and names the model extracts
LogNames == { <<>>, <<" ">>, <<" ", "J">>, <<"j">>, <<"o">> }

\* names of rows and of lookups when the matching is checked on its own
NameInputs == LogNames \cup { <<"j", "-">> }

DetailInputs == { <<>>, <<" ">>, <<"x">> }

QueryInputs == { <<>>, <<"q">> }

RaceNames == { <<"J">>, <<"j">>, <<"o">> }

RaceDetails == { <<"x">> }

Sessions == { "s1", "s2" }

\* scores the similarity metric may give two strings that differ after
\* processing (the metric itself belongs to the fuzzywuzzy library)
OracleScores == { 79, 80, 95 }

\* the scores drawn when a whole retrieval runs
RetrieveScores == { 79, 80 }

(***************************************************************************)
(* Python values                                                           *)
(***************************************************************************)
None == << >>

Some(v) == << v >>

\* a JSON value of the model's reply: null, a string, or anything else
Null == [tag |-> "null", val |-> <<>>]

Str(s) == [tag |-> "str", val |-> s]

NonStr == [tag |-> "other", val |-> <<>>]

\* Python truthiness of a string
Falsy(s) == s = <<>>

\* Python truthiness of an optional string (None and "" are false)
Truthy(opt) == opt # None /\ opt[1] # <<>>

(***************************************************************************)
(* normalize_name: name.strip().lower()                                    *)
(***************************************************************************)
IsSpace(c) == c = " "

LowerChar(c) ==
  CASE c = "J" -> "j"
    [] c = "O" -> "o"
    [] OTHER -> c

RECURSIVE LStrip(_)
LStrip(s) ==
  IF s = <<>> THEN <<>>
  ELSE IF IsSpace(Head(s)) THEN LStrip(Tail(s)) ELSE s

RECURSIVE RStrip(_)
RStrip(s) ==
  IF s = <<>> THEN <<>>
  ELSE IF IsSpace(s[Len(s)]) THEN RStrip(SubSeq(s, 1, Len(s) - 1)) ELSE s

Strip(s) == RStrip(LStrip(s))

Lower(s) == IF s = <<>> THEN <<>> ELSE [i \in 1..Len(s) |-> LowerChar(s[i])]

NormalizeStripOnly(name) == Strip(name)

normalize_name(name) == Lower(Strip(name))

(***************************************************************************)
(* The store collaborator                                                  *)
(***************************************************************************)
\* name TEXT PRIMARY KEY: an insert of an existing raw name raises
PrimaryKeyCollision(rows, row) == \E i \in 1..Len(rows) : rows[i].name = row.name

\* an insert that replaces the row of the same normalized name
StoreUpsertNormalized(rows, row) ==
  IF \E i \in 1..Len(rows) : normalize_name(rows[i].name) = normalize_name(row.name)
  THEN [i \in 1..Len(rows) |->
          IF normalize_name(rows[i].name) = normalize_name(row.name)
          THEN row ELSE rows[i]]
  ELSE Append(rows, row)

\* supabase.table("interactions").insert({...}).execute(), when it succeeds
StoreInsert(rows, row) == Append(rows, row)

(***************************************************************************)
(* load_interactions: the dict {normalize_name(row.name): row.details},    *)
(* as the sequence of its items in insertion order (a repeated key keeps   *)
(* its first position and takes the last value)                            *)
(***************************************************************************)
RECURSIVE load_interactions(_)
load_interactions(rows) ==
  IF rows = <<>> THEN <<>>
  ELSE LET front == load_interactions(SubSeq(rows, 1, Len(rows) - 1))
           last  == rows[Len(rows)]
           k     == normalize_name(last.name)
       IN IF \E i \in 1..Len(front) : front[i].key = k
          THEN [i \in 1..Len(front) |->
                  IF front[i].key = k
                  THEN [key |-> k, details |-> last.details]
                  ELSE front[i]]
          ELSE Append(front, [key |-> k, details |-> last.details])

\* interactions.get(k)
Get(interactions, k) ==
  IF \E i \in 1..Len(interactions) : interactions[i].key = k
  THEN Some(interactions[CHOOSE i \in 1..Len(interactions) :
                           interactions[i].key = k].details)
  ELSE None

\* list(interactions.keys())
Keys(interactions) ==
  IF interactions = <<>> THEN <<>>
  ELSE [i \in 1..Len(interactions) |-> interactions[i].key]

\* existing_names as the raw names, not normalized
ExistingRawNames(rows) == { rows[i].name : i \in 1..Len(rows) }

\* {normalize_name(row["name"]) for row in existing.data}
existing_names(rows) == { normalize_name(rows[i].name) : i \in 1..Len(rows) }

(***************************************************************************)
(* save_interaction.  readOk / insertOk: whether the select / the insert   *)
(* call to the store succeeds.  Any exception is caught and reported.      *)
(***************************************************************************)
save_interaction(rows, name, details, readOk, insertOk) ==
  LET normalized_name == normalize_name(name)
      row             == [name |-> name, details |-> details]
  IN IF ~readOk
     THEN [ret |-> FALSE, outcome |-> "storeError", store |-> rows,
           reads |-> 1, inserts |-> 0]
     ELSE IF normalized_name \in existing_names(rows)
     THEN [ret |-> FALSE, outcome |-> "duplicate", store |-> rows,
           reads |-> 1, inserts |-> 0]
     ELSE IF ~insertOk \/ PrimaryKeyCollision(rows, row)
     THEN [ret |-> FALSE, outcome |-> "storeError", store |-> rows,
           reads |-> 1, inserts |-> 1]
     ELSE [ret |-> TRUE, outcome |-> "success", store |-> StoreInsert(rows, row),
           reads |-> 1, inserts |-> 1]

(***************************************************************************)
(* process.extractOne(query, choices) of fuzzywuzzy with its defaults      *)
(* (processor full_process, scorer WRatio)                                 *)
(***************************************************************************)
IsAlnum(c) == c \notin { " ", "-" }

\* utils.full_process: non-alphanumerics become spaces, lower, strip
full_process(s) ==
  IF s = <<>> THEN <<>>
  ELSE Strip([i \in 1..Len(s) |-> IF IsAlnum(s[i]) THEN LowerChar(s[i]) ELSE " "])

\* WRatio: 0 when a processed string is empty, 100 when the processed
\* strings are equal, below 100 otherwise (the value sc[c] is the metric's)
Score(query, c, sc) ==
  LET pq == full_process(query)
      pch == full_process(c)
  IN IF pq = <<>> \/ pch = <<>> THEN 0
     ELSE IF pq = pch THEN 100
     ELSE sc[c]

\* max(..., key=score): the first choice of maximal score
extractOne(query, choices, sc) ==
  LET best == CHOOSE i \in 1..Len(choices) :
                \A j \in 1..Len(choices) :
                  /\ Score(query, choices[j], sc) <= Score(query, choices[i], sc)
                  /\ j < i => Score(query, choices[j], sc) < Score(query, choices[i], sc)
  IN [best_match |-> choices[best], score |-> Score(query, choices[best], sc)]

Threshold == 80

AcceptsAbove(score) == score > Threshold

\* if score >= 80
Accepts(score) == score >= Threshold

(***************************************************************************)
(* load_interaction, from the loaded dict on (lines 170-181): the value    *)
(* returned, with the fuzzy candidate and score when the fuzzy step ran    *)
(***************************************************************************)
resolve(interactions, name, sc) ==
  LET normalized_name == normalize_name(name)
      exact_match     == Get(interactions, normalized_name)
      all_names       == Keys(interactions)
  IN IF Truthy(exact_match)
     THEN [value |-> exact_match, fuzzy |-> FALSE, best |-> None, score |-> 0]
     ELSE IF all_names # <<>>
     THEN LET m == extractOne(normalized_name, all_names, sc)
          IN [value |-> IF Accepts(m.score)
                        THEN Get(interactions, m.best_match) ELSE None,
              fuzzy |-> TRUE, best |-> Some(m.best_match), score |-> m.score]
     ELSE [value |-> None, fuzzy |-> FALSE, best |-> None, score |-> 0]

\* load_interaction(name): the store read may raise; name.strip() raises
\* when the model's "name" is not a string
load_interaction(rows, name, readOk, sc) ==
  IF ~readOk THEN [raised |-> TRUE, value |-> None, reads |-> 1]
  ELSE IF name.tag # "str" THEN [raised |-> TRUE, value |-> None, reads |-> 1]
  ELSE [raised |-> FALSE,
        value  |-> resolve(load_interactions(rows), name.val, sc).value,
        reads  |-> 1]

(***************************************************************************)
(* parse_query_with_groq.  A reply of the language model is                *)
(*   kind = "raise"      the call raises (or content is None)              *)
(*          "empty"      the body is empty after strip()                   *)
(*          "badjson"    json.loads raises JSONDecodeError                 *)
(*          "nonobject"  valid JSON that is not a dict                     *)
(*          "noname"     a dict without the key "name"                     *)
(*          "object"     a dict with "name" (and perhaps "message")        *)
(***************************************************************************)
Replies ==
  { [kind |-> k, name |-> Null, message |-> Null] :
      k \in { "raise", "empty", "badjson", "nonobject" } }
  \cup { [kind |-> "noname", name |-> Null, message |-> m] :
           m \in { Null, Str(<<"h">>) } }
  \cup { [kind |-> "object", name |-> n, message |-> m] :
           n \in { Null, NonStr } \cup { Str(s) : s \in LogNames },
           m \in { Null, Str(<<"h">>) } }

EmptyResult == [name |-> Null, message |-> Null, reported |-> TRUE]

\* without the check `"name" not in parsed_result`
ParseWithoutNameCheck(reply) ==
  IF reply.kind \in { "raise", "empty", "badjson", "nonobject" }
  THEN EmptyResult
  ELSE [name |-> reply.name, message |-> reply.message, reported |-> FALSE]

parse_query_with_groq(reply) ==
  IF reply.kind \in { "raise", "empty", "badjson", "nonobject", "noname" }
  THEN EmptyResult
  ELSE [name |-> reply.name, message |-> reply.message, reported |-> FALSE]

(***************************************************************************)
(* The two form handlers (one script run each)                             *)
(***************************************************************************)
\* "Save Interaction" (lines 229-234)
log_handler(rows, name, details, readOk, insertOk) ==
  IF Falsy(name) \/ Falsy(details)
  THEN [saved |-> FALSE, ret |-> FALSE, outcome |-> "validationError",
        store |-> rows, reads |-> 0, inserts |-> 0]
  ELSE LET r == save_interaction(rows, name, details, readOk, insertOk)
       IN [saved |-> TRUE, ret |-> r.ret, outcome |-> r.outcome,
           store |-> r.store, reads |-> r.reads, inserts |-> r.inserts]

\* "Retrieve" (lines 243-262); outcome "crash" is an exception no handler
\* catches
retrieve_handler(rows, query, reply, readOk, sc) ==
  IF Falsy(query)
  THEN [outcome |-> "validationError", shown |-> None, reads |-> 0,
        called |-> FALSE, result |-> EmptyResult]
  ELSE LET result      == parse_query_with_groq(reply)
           person_name == result.name
           message     == result.message
       IN IF person_name # Null
          THEN LET l == load_interaction(rows, person_name, readOk, sc)
               IN IF l.raised
                  THEN [outcome |-> "crash", shown |-> None, reads |-> l.reads,
                        called |-> TRUE, result |-> result]
                  ELSE IF Truthy(l.value)
                  THEN [outcome |-> "found", shown |-> l.value, reads |-> l.reads,
                        called |-> TRUE, result |-> result]
                  ELSE [outcome |-> "notFound", shown |-> None, reads |-> l.reads,
                        called |-> TRUE, result |-> result]
          ELSE IF message # Null
          THEN [outcome |-> "info", shown |-> Some(message.val), reads |-> 0,
                called |-> TRUE, result |-> result]
          ELSE [outcome |-> "unresolved", shown |-> None, reads |-> 0,
                called |-> TRUE, result |-> result]

(***************************************************************************)
(* State                                                                   *)
(***************************************************************************)
NoReply == [kind |-> "none", name |-> Null, message |-> Null]

NoRun ==
  [op |-> "none", name |-> <<>>, details |-> <<>>, query |-> <<>>,
   reply |-> NoReply, result |-> EmptyResult, saved |-> FALSE, called |-> FALSE,
   outcome |-> "none", shown |-> None, reads |-> 0, inserts |-> 0,
   readOk |-> TRUE, before |-> <<>>,
   fuzzy |-> FALSE, best |-> None, score |-> 0, metric |-> << >>]

IdleSessions ==
  /\ pc = [p \in Sessions |-> "idle"]
  /\ req = [p \in Sessions |-> [name |-> <<>>, details |-> <<>>]]
  /\ existing = [p \in Sessions |-> {}]
  /\ ret = [p \in Sessions |-> "none"]

\* the app starts on an empty table
Init ==
  /\ store = <<>>
  /\ run = NoRun
  /\ logged = {}
  /\ IdleSessions

\* tables of scores for the keys of the loaded dict
ScoreTables(rows, scores) ==
  [ { normalize_name(rows[i].name) : i \in 1..Len(rows) } -> scores ]

\* the store calls and the metric are consulted only on the lookup path
WillLookUp(query, reply) ==
  ~Falsy(query) /\ parse_query_with_groq(reply).name # Null

ReadOutcomes(query, reply) ==
  IF WillLookUp(query, reply) THEN BOOLEAN ELSE { TRUE }

MetricOutcomes(rows, query, reply, readOk) ==
  IF WillLookUp(query, reply) /\ readOk /\ reply.name.tag = "str"
  THEN ScoreTables(rows, RetrieveScores)
  ELSE { << >> }

\* the outcomes of the store calls a log submission makes
SelectOutcomes(name, details) ==
  IF Falsy(name) \/ Falsy(details) THEN { TRUE } ELSE BOOLEAN

InsertOutcomes(rows, name, details, readOk) ==
  IF log_handler(rows, name, details, readOk, TRUE).inserts = 0
  THEN { TRUE } ELSE BOOLEAN

(***************************************************************************)
(* Spec: submissions run one at a time, each to completion                 *)
(***************************************************************************)
Log ==
  \E name \in LogNames, details \in DetailInputs :
  \E readOk \in SelectOutcomes(name, details) :
  \E insertOk \in InsertOutcomes(store, name, details, readOk) :
  \E r \in { log_handler(store, name, details, readOk, insertOk) } :
       /\ Len(r.store) <= MaxRows
       /\ store' = r.store
       /\ run' = [NoRun EXCEPT !.op = "log", !.name = name, !.details = details,
                               !.saved = r.saved, !.outcome = r.outcome,
                               !.reads = r.reads, !.inserts = r.inserts,
                               !.readOk = readOk, !.before = store]
       /\ logged' = IF r.ret THEN logged \cup { <<name, details>> } ELSE logged
       /\ UNCHANGED <<pc, req, existing, ret>>

Retrieve ==
  \E query \in QueryInputs, reply \in Replies :
  \E readOk \in ReadOutcomes(query, reply) :
  \E sc \in MetricOutcomes(store, query, reply, readOk) :
  \E r \in { retrieve_handler(store, query, reply, readOk, sc) } :
       /\ run' = [NoRun EXCEPT !.op = "retrieve", !.query = query,
                               !.reply = reply, !.result = r.result,
                               !.called = r.called, !.outcome = r.outcome,
                               !.shown = r.shown, !.reads = r.reads,
                               !.readOk = readOk, !.before = store]
       /\ UNCHANGED <<store, logged, pc, req, existing, ret>>

Next == Log \/ Retrieve

Spec == Init /\ [][Next]_vars

(***************************************************************************)
(* SpecRace: two sessions, each inside save_interaction, interleaving at   *)
(* the two store calls                                                     *)
(***************************************************************************)
Submit(p) ==
  /\ pc[p] = "idle"
  /\ \E name \in RaceNames, details \in RaceDetails :
       /\ req' = [req EXCEPT ![p] = [name |-> name, details |-> details]]
       /\ IF Falsy(name) \/ Falsy(details)
          THEN /\ ret' = [ret EXCEPT ![p] = "validationError"]
               /\ pc' = pc
          ELSE /\ ret' = [ret EXCEPT ![p] = "none"]
               /\ pc' = [pc EXCEPT ![p] = "read"]
  /\ UNCHANGED <<store, run, logged, existing>>

\* line 154-155
ReadExisting(p) ==
  /\ pc[p] = "read"
  /\ \E readOk \in BOOLEAN :
       IF readOk
       THEN /\ existing' = [existing EXCEPT ![p] = existing_names(store)]
            /\ pc' = [pc EXCEPT ![p] = "check"]
            /\ ret' = ret
       ELSE /\ ret' = [ret EXCEPT ![p] = "storeError"]
            /\ pc' = [pc EXCEPT ![p] = "idle"]
            /\ existing' = existing
  /\ UNCHANGED <<store, run, logged, req>>

\* lines 157-162
CheckInsert(p) ==
  /\ pc[p] = "check"
  /\ pc' = [pc EXCEPT ![p] = "idle"]
  /\ \E insertOk \in BOOLEAN :
       LET row == [name |-> req[p].name, details |-> req[p].details]
       IN IF normalize_name(req[p].name) \in existing[p]
          THEN /\ ret' = [ret EXCEPT ![p] = "duplicate"]
               /\ store' = store
          ELSE IF ~insertOk \/ PrimaryKeyCollision(store, row)
          THEN /\ ret' = [ret EXCEPT ![p] = "storeError"]
               /\ store' = store
          ELSE /\ Len(store) < MaxRows
               /\ ret' = [ret EXCEPT ![p] = "success"]
               /\ store' = StoreInsert(store, row)
  /\ UNCHANGED <<run, logged, req, existing>>

NextRace == \E p \in Sessions : Submit(p) \/ ReadExisting(p) \/ CheckInsert(p)

SpecRace == Init /\ [][NextRace]_vars

(***************************************************************************)
(* SpecResolve: load_interaction's matching on any table content and name  *)
(***************************************************************************)
Rows == [name : NameInputs, details : DetailInputs]

Tables ==
  { t \in UNION { [1..n -> Rows] : n \in 0..MaxRows } :
      \A i, j \in 1..Len(t) : t[i].name = t[j].name => i = j }

InitResolve ==
  /\ store \in Tables
  /\ \E name \in NameInputs : run = [NoRun EXCEPT !.name = name]
  /\ logged = {}
  /\ IdleSessions

Resolve ==
  /\ run.op = "none"
  /\ \E sc \in ScoreTables(store, OracleScores) :
     \E r \in { resolve(load_interactions(store), run.name, sc) } :
          run' = [run EXCEPT !.op = "resolve", !.shown = r.value,
                             !.fuzzy = r.fuzzy, !.best = r.best,
                             !.score = r.score, !.metric = sc,
                             !.before = store]
  /\ UNCHANGED <<store, logged, pc, req, existing, ret>>

NextResolve == Resolve

SpecResolve == InitResolve /\ [][NextResolve]_vars

(***************************************************************************)
(* Properties                                                              *)
(***************************************************************************)
\* the normalized form of a name as the specification words it: trimmed,
\* then lower-cased
TrimmedLowered(s) == Lower(Strip(s))

RawNames(rows) == { rows[i].name : i \in 1..Len(rows) }

NormalizedNames(rows) == { TrimmedLowered(rows[i].name) : i \in 1..Len(rows) }

\* C1: with submissions run one at a time from an empty table, no two stored
\* records have equal normalized names.
C1_NoNormalizedDuplicates ==
  \A i, j \in 1..Len(store) :
    TrimmedLowered(store[i].name) = TrimmedLowered(store[j].name) => i = j

\* a second record was stored and a submission differing only in display
\* form from a stored name has just been turned down
C1_Witness ==
  /\ Len(store) = 2
  /\ run.op = "log"
  /\ run.outcome = "duplicate"
  /\ run.name \notin RawNames(store)

\* save_interaction was called with a name whose normalized form is stored
C2_SavedDuplicate ==
  /\ run.op = "log"
  /\ run.saved
  /\ TrimmedLowered(run.name) \in NormalizedNames(run.before)

\* C2 as stated: a save of an already stored normalized name returns
\* duplicate, inserts nothing and leaves the table as it was.
C2_DuplicateReturnsDuplicate ==
  C2_SavedDuplicate =>
    /\ run.outcome = "duplicate"
    /\ run.inserts = 0
    /\ store = run.before

\* C2 amended: such a save fails, inserts nothing and leaves the table as it
\* was; it reports duplicate when the read of the stored names succeeds and
\* a store error when that read fails.
C2_DuplicateNeverInserted ==
  C2_SavedDuplicate =>
    /\ run.outcome = IF run.readOk THEN "duplicate" ELSE "storeError"
    /\ run.inserts = 0
    /\ store = run.before

\* "John" is stored and "john" is submitted: duplicate
C2_Witness ==
  /\ C2_SavedDuplicate
  /\ run.readOk
  /\ run.name \notin RawNames(run.before)
  /\ run.outcome = "duplicate"
  /\ store = run.before

\* C3: no run of the logging or of the retrieval pipeline ends in an
\* exception that nothing catches, whichever external call fails.
C3_NoUnhandledException == run.outcome # "crash"

\* the normalized query is a key of the table
C4_ExactKey ==
  /\ run.op = "resolve"
  /\ TrimmedLowered(run.name) \in NormalizedNames(store)

\* C4: when the normalized query equals the normalized name of a stored
\* record, the resolver returns the details of such a record, whatever those
\* details are and whatever the other candidates score.
C4_ExactMatchWins ==
  C4_ExactKey =>
    \E i \in 1..Len(store) :
      /\ TrimmedLowered(store[i].name) = TrimmedLowered(run.name)
      /\ run.shown = Some(store[i].details)

\* the score the metric gave candidate k in the resolver's run
C5_ScoreOf(k) == Score(TrimmedLowered(run.name), k, run.metric)

C5_IsBest(k) ==
  /\ k \in NormalizedNames(store)
  /\ \A k2 \in NormalizedNames(store) : C5_ScoreOf(k2) <= C5_ScoreOf(k)

C5_NoExactKey ==
  /\ run.op = "resolve"
  /\ TrimmedLowered(run.name) \notin NormalizedNames(store)

\* C5: when the normalized query is no key of the table, the resolver returns
\* the details of a best-scoring candidate if the table is non-empty and the
\* best score is at least 80, and no match otherwise.
C5_FuzzyThreshold ==
  C5_NoExactKey =>
    IF \E k \in NormalizedNames(store) : C5_IsBest(k) /\ C5_ScoreOf(k) >= 80
    THEN \E i \in 1..Len(store) :
           /\ C5_IsBest(TrimmedLowered(store[i].name))
           /\ run.shown = Some(store[i].details)
    ELSE run.shown = None

\* a best score of exactly 80 was accepted
C5_Witness ==
  /\ C5_NoExactKey
  /\ run.fuzzy
  /\ run.score = 80
  /\ run.shown # None

\* a retrieval whose extraction gave a name that was logged with success
C6_RetrieveLogged ==
  /\ run.op = "retrieve"
  /\ run.called
  /\ run.result.name.tag = "str"
  /\ \E d \in DetailInputs : <<run.result.name.val, d>> \in logged

\* C6: once log(n, d) has returned success, every later retrieval whose
\* extraction yields n returns found with exactly the details d.
C6_LoggedStaysFound ==
  C6_RetrieveLogged =>
    \A d \in DetailInputs :
      <<run.result.name.val, d>> \in logged =>
        run.outcome = "found" /\ run.shown = Some(d)

\* C7: retrieve dispatches on the parsed result: a non-null name gives found
\* or notFound from one store lookup; else a non-null message gives info with
\* that message; else unresolved; the last two without reading the store.
C7_Dispatch ==
  run.op = "retrieve" /\ run.called =>
    IF run.result.name # Null
    THEN run.outcome \in { "found", "notFound" } /\ run.reads = 1
    ELSE IF run.result.message # Null
    THEN /\ run.outcome = "info"
         /\ run.shown = Some(run.result.message.val)
         /\ run.reads = 0
    ELSE run.outcome = "unresolved" /\ run.reads = 0

\* C8: when the model call raises, or its body is empty, not JSON, or not an
\* object with a name field, extraction gives Empty and reports an error,
\* and retrieve ends unresolved without reading the store.
C8_ModelFailureDegrades ==
  /\ run.op = "retrieve"
  /\ run.called
  /\ run.reply.kind \in { "raise", "empty", "badjson", "nonobject", "noname" }
  => /\ run.result.name = Null
     /\ run.result.message = Null
     /\ run.result.reported
     /\ run.outcome = "unresolved"
     /\ run.reads = 0

\* the body was an object with a message but without a name field
C8_Witness ==
  /\ run.op = "retrieve"
  /\ run.reply.kind = "noname"
  /\ run.reply.message # Null
  /\ run.outcome = "unresolved"

\* two sessions both saved with success names that are equal once
\* normalized and differ as typed
C9_BothSaved(p, q) ==
  /\ p # q
  /\ ret[p] = "success"
  /\ ret[q] = "success"
  /\ req[p].name # req[q].name
  /\ TrimmedLowered(req[p].name) = TrimmedLowered(req[q].name)

\* C9: when two interleaved saves of one normalized name under different
\* display strings both pass the check, both insert, and the table holds two
\* records with equal normalized names.
C9_RaceStoresBoth ==
  \A p, q \in Sessions :
    C9_BothSaved(p, q) =>
      \E i, j \in 1..Len(store) :
        /\ i # j
        /\ store[i].name = req[p].name
        /\ store[j].name = req[q].name
        /\ TrimmedLowered(store[i].name) = TrimmedLowered(store[j].name)

C9_Witness ==
  /\ \E p, q \in Sessions : C9_BothSaved(p, q)
  /\ \E i, j \in 1..Len(store) :
       i # j /\ TrimmedLowered(store[i].name) = TrimmedLowered(store[j].name)

\* C10: a log submission with an empty or blank name or details is rejected
\* before the store is touched, and no record with an empty normalized name
\* is ever stored.
C10_BlankRejected ==
  /\ run.op = "log" /\ (Strip(run.name) = <<>> \/ Strip(run.details) = <<>>)
     => /\ run.outcome = "validationError"
        /\ run.reads = 0
        /\ run.inserts = 0
        /\ store = run.before
  /\ <<>> \notin NormalizedNames(store)

====
